---- MODULE Spec2Model ----
(***************************************************************************)
(* The crawl of scraping.py: main() resolves the main category, lists its  *)
(* sub-categories, gathers the recipe URLs of every sub-category, gathers  *)
(* the recipe record of every recipe URL, then drops the collection and    *)
(* inserts the results.                                                    *)
(*                                                                         *)
(* Encoding of Python values.  An optional value is a sequence of length   *)
(* 0 or 1: None is <<>> and a value v is <<v>>.  A text is the sequence of *)
(* its fragments, each a whitespace character or a run of other            *)
(* characters.  The result of a call is a record [exc, val]: exc = ""      *)
(* when the call returns val, otherwise the name of the exception that     *)
(* leaves the call.                                                        *)
(***************************************************************************)
EXTENDS Naturals, Sequences, FiniteSets, TLC

VARIABLES pc, main_category_url, index_match, sub_categories, list_tasks,
          list_exc, flattened_recipes, recipe_tasks, recipe_exc, results,
          error, store, delete_calls, insert_calls

vars == <<pc, main_category_url, index_match, sub_categories, list_tasks,
          list_exc, flattened_recipes, recipe_tasks, recipe_exc, results,
          error, store, delete_calls, insert_calls>>

\* ------------------------------------------------------------- bounds
\* anchors on a category page
MaxAnchors == 2
\* recipe links on the listing pages of the site, all together
MaxRecipes == 2
\* cooking-stage containers on a recipe page
MaxStages == 1
\* portion-indicator elements on a recipe page
MaxPortionDivs == 2

\* ------------------------------------------------------------- values
None == <<>>
Some(v) == <<v>>

Ret(v) == [exc |-> "", val |-> v]
Raise(e) == [exc |-> e, val |-> <<>>]

NBSP == " "
Whitespace == {" ", "\n", NBSP}

SeqsUpTo(S, n) == UNION {[1..k -> S] : k \in 0..n}

\* ------------------------------------------------------------- text
RECURSIVE SplitFrom(_, _, _, _)
SplitFrom(text, i, cur, acc) ==
    IF i > Len(text)
    THEN IF cur = "" THEN acc ELSE Append(acc, cur)
    ELSE IF text[i] \in Whitespace
         THEN SplitFrom(text, i + 1, "", IF cur = "" THEN acc ELSE Append(acc, cur))
         ELSE SplitFrom(text, i + 1, cur \o text[i], acc)

RECURSIVE JoinWords(_)
JoinWords(words) ==
    IF words = <<>> THEN ""
    ELSE IF Len(words) = 1 THEN words[1]
    ELSE words[1] \o " " \o JoinWords(Tail(words))

\* ' '.join(text.replace('\n', ' ').replace('\xa0', ' ').split())
clean_text(text) == JoinWords(SplitFrom(text, 1, "", <<>>))

RECURSIVE Concat(_)
Concat(text) == IF text = <<>> THEN "" ELSE text[1] \o Concat(Tail(text))

RECURSIVE LStrip(_)
LStrip(text) ==
    IF text # <<>> /\ text[1] \in Whitespace THEN LStrip(Tail(text)) ELSE text

RECURSIVE RStrip(_)
RStrip(text) ==
    IF text # <<>> /\ text[Len(text)] \in Whitespace
    THEN RStrip(SubSeq(text, 1, Len(text) - 1))
    ELSE text

\* str.strip(), and get_text(strip=True) of an element with one text node
strip(text) == Concat(RStrip(LStrip(text)))

\* ------------------------------------------------------------- configuration
base_url == "https://site"
categories_url == "/recipes"
main_category_name == "Soups"

\* ------------------------------------------------------------- pages
\* What session.get can answer for a URL whose pages are drawn from pages:
\* a transport error (status 0), an error status, or a page.
Responses(pages) ==
    {[status |-> s, body |-> None] : s \in {0, 404}} \cup
    {[status |-> 200, body |-> Some(page)] : page \in pages}

\* ScrapingMixin.get_soup: any exception, raise_for_status included, gives None
get_soup(response) ==
    IF response.status = 0 \/ response.status >= 400 THEN None ELSE response.body

\* a category anchor: its category_text div and its href attribute
IndexAnchors ==
    { [text |-> Some(<<" ", "Soups">>), href |-> Some("/soups")],
      [text |-> Some(<<"Salads">>),     href |-> Some("/salads")],
      [text |-> None,                   href |-> Some("/soups")],
      [text |-> Some(<<"Soups">>),      href |-> None] }

SubAnchors ==
    { [text |-> Some(<<"Hot", "\n">>), href |-> Some("/soups/hot")],
      [text |-> Some(<<"Cold">>),      href |-> Some("/soups/cold")],
      [text |-> None,                  href |-> Some("/soups/hot")],
      [text |-> Some(<<"Cold">>),      href |-> None] }

\* a category page: the main_category container (absent, or its anchors)
CategoryPages(anchors) ==
    {[container |-> c] :
        c \in {None} \cup {Some(a) : a \in SeqsUpTo(anchors, MaxAnchors)}}

RecipeHrefs == {"/r1", "/r2"}

\* the recipe_link anchors of a listing page, each with or without href; a
\* page links a recipe once
LinkLists ==
    {l \in SeqsUpTo([href : {None} \cup {Some(h) : h \in RecipeHrefs}], MaxRecipes) :
        \A i, j \in DOMAIN l : (l[i] = l[j] /\ l[i].href # None) => i = j}

\* a listing page: the recipes_container (absent, or its recipe links)
ListingPages ==
    {[container |-> c] : c \in {None} \cup {Some(l) : l \in LinkLists}}

\* the well-formed recipe page
GoodRecipePage ==
    [ recipe_title   |-> Some(<<"Borscht", "\n", " ">>),
      main_image     |-> Some(Some(Some("/img/1.jpg"))),
      description    |-> Some(<<"Beet", NBSP, " ", "soup">>),
      author         |-> Some(Some(<<" ", "Nino">>)),
      ingredients    |-> << <<"2", " ", "beets">>, <<"salt", "\n">> >>,
      cooking_stages |-> << [stage_count |-> Some(<<"1">>),
                             p |-> Some(<<"Boil", "\n", "water">>)] >>,
      portion        |-> << <<" ", "ულუფა", "\n">>, <<" ", "ულუფა", "\n">> >> ]

\* a cooking_stages container: its stage_count div and its first paragraph
StageDivs ==
    [ stage_count : {None, Some(<<"1">>)},
      p : {None, Some(<<"Boil", "\n", "water">>)} ]

PortionTexts == { <<" ", "ულუფა", "\n">> }

\* every recipe page within the bounds: each container absent or present,
\* the image container with or without its img and the img's src, the
\* author container with or without the author_name element
AllRecipePages ==
    [ recipe_title   : {None, GoodRecipePage.recipe_title},
      main_image     : {None, Some(None), Some(Some(None)), GoodRecipePage.main_image},
      description    : {None, GoodRecipePage.description},
      author         : {None, Some(None), GoodRecipePage.author},
      ingredients    : {GoodRecipePage.ingredients},
      cooking_stages : SeqsUpTo(StageDivs, MaxStages),
      portion        : SeqsUpTo(PortionTexts, MaxPortionDivs) ]

\* what session.get can answer for each kind of URL
IndexResponses == Responses(CategoryPages(IndexAnchors))
SubCategoryResponses == Responses(CategoryPages(SubAnchors))
ListingResponses == Responses(ListingPages)
RecipeResponses == Responses(AllRecipePages)

\* ------------------------------------------------------------- functions
Min(S) == CHOOSE x \in S : \A y \in S : x <= y

\* Category(...).to_dict()
Category(name, url) == [name |-> name, url |-> url]

\* SubCategory(...).to_dict()
SubCategory(name, url, recipe_urls) ==
    [sub_category_name |-> name, sub_category_url |-> url, recipe_urls |-> recipe_urls]

\* Scraper.get_categories, after get_soup returned soup
get_categories(soup) ==
    IF soup = None THEN Ret(<<>>)
    ELSE LET categories_div == soup[1].container IN
         IF categories_div = None THEN Ret(<<>>)
         ELSE LET anchors == categories_div[1]
                  bad == {i \in DOMAIN anchors :
                             anchors[i].text = None \/ anchors[i].href = None}
              IN IF bad = {}
                 THEN Ret([i \in DOMAIN anchors |->
                             Category(strip(anchors[i].text[1]),
                                      base_url \o anchors[i].href[1])])
                 ELSE IF anchors[Min(bad)].text = None
                      THEN Ret(<<>>)
                      ELSE Raise("KeyError")

\* get_one_category_url without the comparison of names
get_one_category_url_any(categories) ==
    IF categories = <<>> THEN None ELSE Some(categories[1].url)

\* Scraper.get_one_category_url
get_one_category_url(categories) ==
    LET hits == {i \in DOMAIN categories : categories[i].name = main_category_name}
    IN IF hits = {} THEN None ELSE Some(categories[Min(hits)].url)

\* _extract_recipe_urls returning a SubCategory without URLs on a failed fetch
_extract_recipe_urls_entry(soup, category) ==
    IF soup = None THEN Ret(<< SubCategory(category.name, category.url, <<>>) >>)
    ELSE LET container == soup[1].container IN
         IF container = None THEN Ret(<<>>)
         ELSE LET recipe_links == container[1] IN
              IF \E i \in DOMAIN recipe_links : recipe_links[i].href = None
              THEN Raise("KeyError")
              ELSE Ret(<< SubCategory(category.name, category.url,
                            [i \in DOMAIN recipe_links |->
                                base_url \o recipe_links[i].href[1]]) >>)

\* Scraper._extract_recipe_urls, after get_soup returned soup
_extract_recipe_urls(soup, category) ==
    IF soup = None THEN Ret(<<>>)
    ELSE LET container == soup[1].container IN
         IF container = None THEN Ret(<<>>)
         ELSE LET recipe_links == container[1] IN
              IF \E i \in DOMAIN recipe_links : recipe_links[i].href = None
              THEN Raise("KeyError")
              ELSE Ret(<< SubCategory(category.name, category.url,
                            [i \in DOMAIN recipe_links |->
                                base_url \o recipe_links[i].href[1]]) >>)

\* [recipe for sublist in recipes for recipe in sublist]
RECURSIVE Flatten(_)
Flatten(lists) ==
    IF lists = <<>> THEN <<>> ELSE lists[1] \o Flatten(Tail(lists))

\* the arguments of the tasks scrape_recipe creates, in creation order
TaskArgs(data) ==
    Flatten([s \in DOMAIN data |->
               [u \in DOMAIN data[s].recipe_urls |->
                  [recipe_url |-> data[s].recipe_urls[u],
                   sub_category_name |-> data[s].sub_category_name,
                   sub_category_url |-> data[s].sub_category_url]]])

\* ScrapingMixin.get_cooking_stages: the AttributeError is logged and the
\* function falls off its end, returning None
get_cooking_stages(stage_divs) ==
    IF \E i \in DOMAIN stage_divs :
          stage_divs[i].stage_count = None \/ stage_divs[i].p = None
    THEN None
    ELSE Some([i \in DOMAIN stage_divs |->
                 [stage |-> clean_text(stage_divs[i].stage_count[1]),
                  text |-> clean_text(stage_divs[i].p[1])]])

\* the portion rule of extract_recipe_details
Portion(portion_divs) ==
    LET portion == strip(portion_divs[2])
    IN IF portion = "ულუფა" THEN "1 ულუფა" ELSE portion

\* extract_recipe_details, lines 143-161: what it reads from the page.  An
\* exception other than AttributeError leaves the function.
recipe_fields(soup) ==
    IF soup = None THEN Ret(None)
    ELSE LET page == soup[1] IN
         IF page.recipe_title = None THEN Ret(None)
         ELSE IF page.main_image = None THEN Ret(None)
         ELSE IF page.main_image[1] = None THEN Raise("TypeError")
         ELSE IF page.main_image[1][1] = None THEN Raise("KeyError")
         ELSE IF page.description = None THEN Ret(None)
         ELSE IF page.author = None THEN Ret(None)
         ELSE IF page.author[1] = None THEN Ret(None)
         ELSE IF Len(page.portion) < 2 THEN Raise("IndexError")
         ELSE Ret(Some(
                [ recipe_name    |-> clean_text(page.recipe_title[1]),
                  main_image_url |-> page.main_image[1][1][1],
                  description    |-> clean_text(page.description[1]),
                  author_name    |-> clean_text(page.author[1][1]),
                  ingredients    |-> [i \in DOMAIN page.ingredients |->
                                        clean_text(page.ingredients[i])],
                  cooking_stages |-> get_cooking_stages(page.cooking_stages),
                  portion        |-> Portion(page.portion) ]))

\* extract_recipe_details, lines 163-176: the record it returns
recipe_record(fields, recipe_url, sub_category_name, sub_category_url, main_url) ==
    IF fields.exc # "" THEN fields
    ELSE IF fields.val = None THEN fields
    ELSE Ret(Some(
           [ recipe_name        |-> fields.val[1].recipe_name,
             url                |-> recipe_url,
             main_category_name |-> main_category_name,
             main_category_url  |-> main_url,
             sub_category_name  |-> sub_category_name,
             sub_category_url   |-> sub_category_url,
             main_image_url     |-> fields.val[1].main_image_url,
             description        |-> fields.val[1].description,
             author_name        |-> fields.val[1].author_name,
             ingredients        |-> fields.val[1].ingredients,
             cooking_stages     |-> fields.val[1].cooking_stages,
             portion            |-> fields.val[1].portion ]))

\* RecipeScraper.extract_recipe_details, after get_soup returned soup
extract_recipe_details(soup, recipe_url, sub_category_name, sub_category_url, main_url) ==
    recipe_record(recipe_fields(soup), recipe_url, sub_category_name,
                  sub_category_url, main_url)

\* what extract_recipe_details can read from the answer to a recipe URL
RecipeExtractions == {recipe_fields(get_soup(response)) : response \in RecipeResponses}

\* gather delivering the values last task first
gather_reversed(tasks) == [i \in DOMAIN tasks |-> tasks[Len(tasks) + 1 - i].val]

\* asyncio.gather's result: the tasks' values in the order of the tasks
gather(tasks) == [i \in DOMAIN tasks |-> tasks[i].val]

\* the collection before the run: the records of an earlier run
PreviousRun ==
    << extract_recipe_details(Some(GoodRecipePage), base_url \o "/old", "Hot",
                              base_url \o "/soups/hot", base_url \o "/soups").val[1] >>

\* ------------------------------------------------------------- state
\* a task: pending, done with the value its coroutine returned, raised, or
\* cancelled; a listing task also records whether its get_soup gave a page
Ended(task) == task.state \in {"done", "raised"}

Finished(out) ==
    [state |-> IF out.exc = "" THEN "done" ELSE "raised", val |-> out.val]

ListingTask(out, fetched) ==
    [state |-> IF out.exc = "" THEN "done" ELSE "raised", val |-> out.val,
     fetched |-> fetched]

InFlight(tasks) == {i \in DOMAIN tasks : tasks[i].state = "pending"}

Init ==
    /\ pc = "initialize"
    /\ main_category_url = None
    /\ index_match = FALSE
    /\ sub_categories = <<>>
    /\ list_tasks = <<>>
    /\ list_exc = ""
    /\ flattened_recipes = <<>>
    /\ recipe_tasks = <<>>
    /\ recipe_exc = ""
    /\ results = <<>>
    /\ error = ""
    /\ store = PreviousRun
    /\ delete_calls = 0
    /\ insert_calls = 0

\* asyncio.run(main()): once main() is over, the tasks still pending are
\* cancelled before the event loop runs anything else
Cancel(tasks) ==
    [i \in DOMAIN tasks |->
        IF tasks[i].state = "pending" THEN [tasks[i] EXCEPT !.state = "cancelled"]
        ELSE tasks[i]]

\* main: a call that raised leaves main() and ends the run
Crash(exc) ==
    /\ pc' = "crashed"
    /\ error' = exc

\* Scraper.initialize_main_category
InitializeMainCategory ==
    /\ pc = "initialize"
    /\ \E response \in IndexResponses :
         LET categories == get_categories(get_soup(response)) IN
         IF categories.exc # ""
         THEN /\ Crash(categories.exc)
              /\ UNCHANGED <<main_category_url, index_match>>
         ELSE /\ main_category_url' = get_one_category_url(categories.val)
              /\ index_match' = \E i \in DOMAIN categories.val :
                                   categories.val[i].name = main_category_name
              /\ pc' = "check"
              /\ error' = error
    /\ UNCHANGED <<sub_categories, list_tasks, list_exc, flattened_recipes,
                   recipe_tasks, recipe_exc, results, store, delete_calls,
                   insert_calls>>

\* `if not scraper.main_category_url`
NotFound(url) == IF url = None THEN TRUE ELSE url[1] = ""

\* main: the branch that logs "Category ... not found!"
MainCategoryNotFound ==
    /\ pc = "check"
    /\ NotFound(main_category_url)
    /\ pc' = "done"
    /\ UNCHANGED <<main_category_url, index_match, sub_categories, list_tasks,
                   list_exc, flattened_recipes, recipe_tasks, recipe_exc,
                   results, error, store, delete_calls, insert_calls>>

\* main: get_categories on the main category's page, then the call of
\* get_all_recipes_urls, which creates one task per sub-category
FetchSubCategories ==
    /\ pc = "check"
    /\ ~NotFound(main_category_url)
    /\ \E response \in SubCategoryResponses :
         LET categories == get_categories(get_soup(response)) IN
         IF categories.exc # ""
         THEN /\ Crash(categories.exc)
              /\ UNCHANGED <<sub_categories, list_tasks>>
         ELSE /\ sub_categories' = categories.val
              /\ list_tasks' = [i \in DOMAIN categories.val |->
                                [state |-> "pending", val |-> <<>>, fetched |-> FALSE]]
              /\ pc' = "listing"
              /\ error' = error
    /\ UNCHANGED <<main_category_url, index_match, list_exc, flattened_recipes,
                   recipe_tasks, recipe_exc, results, store, delete_calls,
                   insert_calls>>

\* the recipe URLs the listing tasks have returned so far; the site's
\* listing pages hold MaxRecipes recipe links at most
Listed == Len(TaskArgs(Flatten(gather(list_tasks))))

\* one _extract_recipe_urls task runs to its end while main() is suspended
ListingTaskComplete(i) ==
    /\ pc \in {"listing", "scraping", "delete", "save"}
    /\ list_tasks[i].state = "pending"
    /\ \E response \in ListingResponses :
         LET soup == get_soup(response)
             out == _extract_recipe_urls(soup, sub_categories[i])
         IN /\ Listed + Len(TaskArgs(out.val)) <= MaxRecipes
            /\ list_tasks' = [list_tasks EXCEPT ![i] = ListingTask(out, soup # None)]
            /\ list_exc' = IF pc = "listing" /\ list_exc = "" THEN out.exc ELSE list_exc
    /\ UNCHANGED <<pc, main_category_url, index_match, sub_categories,
                   flattened_recipes, recipe_tasks, recipe_exc, results, error,
                   store, delete_calls, insert_calls>>

\* get_all_recipes_urls returns: gather delivered every task's value, or
\* propagated the first exception, which the except clause turns into [];
\* main() flattens and calls scrape_recipe, which creates one task per URL
GetAllRecipesUrlsReturn ==
    /\ pc = "listing"
    /\ list_exc # "" \/ InFlight(list_tasks) = {}
    /\ LET recipes == IF list_exc # "" THEN <<>> ELSE gather(list_tasks) IN
         /\ flattened_recipes' = Flatten(recipes)
         /\ recipe_tasks' = [k \in DOMAIN TaskArgs(Flatten(recipes)) |->
                              [state |-> "pending", val |-> None]]
    /\ pc' = "scraping"
    /\ UNCHANGED <<main_category_url, index_match, sub_categories, list_tasks,
                   list_exc, recipe_exc, results, error, store, delete_calls,
                   insert_calls>>

\* one extract_recipe_details task runs to its end
RecipeTaskComplete(k) ==
    /\ pc = "scraping"
    /\ recipe_tasks[k].state = "pending"
    /\ \E fields \in RecipeExtractions :
         LET args == TaskArgs(flattened_recipes)[k]
             out == recipe_record(fields, args.recipe_url,
                        args.sub_category_name, args.sub_category_url,
                        main_category_url[1])
         IN /\ recipe_tasks' = [recipe_tasks EXCEPT ![k] = Finished(out)]
            /\ recipe_exc' = IF recipe_exc = "" THEN out.exc ELSE recipe_exc
    /\ UNCHANGED <<pc, main_category_url, index_match, sub_categories, list_tasks,
                   list_exc, flattened_recipes, results, error, store,
                   delete_calls, insert_calls>>

\* scrape_recipe returns gather's list; main() prints it
ScrapeRecipeReturn ==
    /\ pc = "scraping"
    /\ recipe_exc = ""
    /\ InFlight(recipe_tasks) = {}
    /\ results' = gather(recipe_tasks)
    /\ pc' = "delete"
    /\ UNCHANGED <<main_category_url, index_match, sub_categories, list_tasks,
                   list_exc, flattened_recipes, recipe_tasks, recipe_exc, error,
                   store, delete_calls, insert_calls>>

\* gather propagates the first exception of a task; nothing catches it
ScrapeRecipeRaise ==
    /\ pc = "scraping"
    /\ recipe_exc # ""
    /\ Crash(recipe_exc)
    /\ list_tasks' = Cancel(list_tasks)
    /\ recipe_tasks' = Cancel(recipe_tasks)
    /\ UNCHANGED <<main_category_url, index_match, sub_categories, list_exc,
                   flattened_recipes, recipe_exc, results, store, delete_calls,
                   insert_calls>>

\* delete_collection: drop the collection if it exists
DeleteCollection ==
    /\ pc = "delete"
    /\ delete_calls' = delete_calls + 1
    /\ store' = IF store # <<>> THEN <<>> ELSE store
    /\ pc' = "save"
    /\ UNCHANGED <<main_category_url, index_match, sub_categories, list_tasks,
                   list_exc, flattened_recipes, recipe_tasks, recipe_exc,
                   results, error, insert_calls>>

\* save_to_mongodb without the `if results` test: insert_many of an empty
\* list raises before it writes anything
SaveToMongodb_always ==
    /\ pc = "save"
    /\ insert_calls' = insert_calls + 1
    /\ IF results = <<>> \/ \E i \in DOMAIN results : results[i] = None
       THEN /\ Crash("TypeError")
            /\ store' = store
       ELSE /\ store' = store \o [i \in DOMAIN results |-> results[i][1]]
            /\ pc' = "done"
            /\ error' = error
    /\ list_tasks' = Cancel(list_tasks)
    /\ UNCHANGED <<main_category_url, index_match, sub_categories, list_exc,
                   flattened_recipes, recipe_tasks, recipe_exc, results,
                   delete_calls>>

\* save_to_mongodb: insert_many when results is not empty; insert_many
\* rejects a list holding a None before it writes anything
SaveToMongodb ==
    /\ pc = "save"
    /\ IF results # <<>>
       THEN /\ insert_calls' = insert_calls + 1
            /\ IF \E i \in DOMAIN results : results[i] = None
               THEN /\ Crash("TypeError")
                    /\ store' = store
               ELSE /\ store' = store \o [i \in DOMAIN results |-> results[i][1]]
                    /\ pc' = "done"
                    /\ error' = error
       ELSE /\ pc' = "done"
            /\ UNCHANGED <<insert_calls, store, error>>
    /\ list_tasks' = Cancel(list_tasks)
    /\ UNCHANGED <<main_category_url, index_match, sub_categories, list_exc,
                   flattened_recipes, recipe_tasks, recipe_exc, results,
                   delete_calls>>

Next ==
    \/ InitializeMainCategory
    \/ MainCategoryNotFound
    \/ FetchSubCategories
    \/ \E i \in DOMAIN list_tasks : ListingTaskComplete(i)
    \/ GetAllRecipesUrlsReturn
    \/ \E k \in DOMAIN recipe_tasks : RecipeTaskComplete(k)
    \/ ScrapeRecipeReturn
    \/ ScrapeRecipeRaise
    \/ DeleteCollection
    \/ SaveToMongodb

Spec == Init /\ [][Next]_vars

TypeOK ==
    /\ pc \in {"initialize", "check", "listing", "scraping", "delete", "save",
               "done", "crashed"}
    /\ delete_calls \in 0..1
    /\ insert_calls \in 0..1
    /\ Len(list_tasks) = Len(sub_categories)
    /\ Len(recipe_tasks) = Len(TaskArgs(flattened_recipes))
    /\ GoodRecipePage \in AllRecipePages

\* ------------------------------------------------------------- claims
\* main() holds the list scrape_recipe returned
ResultsDelivered == pc = "delete" \/ delete_calls > 0

\* C1: when the configured main category name matches no category that
\* get_categories returned for the index page, the run lists no
\* sub-category, collects no recipe URL, extracts no recipe, calls neither
\* delete_collection nor insert_many, and leaves the collection as it was.
C1_FatalResolution ==
    (pc # "initialize" /\ ~index_match) =>
        /\ pc \in {"check", "done", "crashed"}
        /\ main_category_url = None
        /\ sub_categories = <<>>
        /\ list_tasks = <<>>
        /\ flattened_recipes = <<>>
        /\ recipe_tasks = <<>>
        /\ results = <<>>
        /\ delete_calls = 0
        /\ insert_calls = 0
        /\ store = PreviousRun

\* the run ended on the "not found" branch
C1_Witness == pc = "done" /\ ~index_match /\ store = PreviousRun

\* C2: every record extract_recipe_details returns has every field
\* populated; a stage container without its label or paragraph gives no
\* record, never a record whose cooking_stages is null.
C2_NoPartialRecord ==
    \A k \in DOMAIN recipe_tasks :
        (recipe_tasks[k].state = "done" /\ recipe_tasks[k].val # None) =>
            recipe_tasks[k].val[1].cooking_stages # None

\* C3: the list main() prints and hands to save_to_mongodb holds exactly
\* the records of the pages that succeeded and no None.
C3_AbsentsDiscarded ==
    ResultsDelivered =>
        /\ \A k \in DOMAIN results : results[k] # None
        /\ Len(results) =
              Cardinality({k \in DOMAIN recipe_tasks : recipe_tasks[k].val # None})

\* C4: in both fan-outs the result of the stage contains the own result of
\* every item, whatever happened to its siblings.
C4_SiblingIndependence ==
    /\ pc \notin {"initialize", "check", "listing"} =>
          \A i \in DOMAIN list_tasks :
              list_tasks[i].state = "done" =>
                  \A j \in DOMAIN list_tasks[i].val :
                      \E m \in DOMAIN flattened_recipes :
                          flattened_recipes[m] = list_tasks[i].val[j]
    /\ pc \notin {"initialize", "check", "listing", "scraping"} =>
          \A k \in DOMAIN recipe_tasks :
              recipe_tasks[k].state = "done" =>
                  k \in DOMAIN results /\ results[k] = recipe_tasks[k].val

\* C5: once the main category is resolved, whatever the sub-category and
\* recipe pages hold, no exception leaves extract_recipe_details or
\* scrape_recipe, and a run that launched its listing tasks goes on to
\* delete_collection and save_to_mongodb.
C5_NoExceptionEscapes ==
    /\ \A k \in DOMAIN recipe_tasks : recipe_tasks[k].state # "raised"
    /\ recipe_exc = ""
    /\ (pc = "crashed" /\ list_tasks # <<>>) => insert_calls > 0

\* C6: a fan-out ends only when every task it launched has ended: no
\* listing fetch is in flight when get_all_recipes_urls returns, none while
\* a recipe fetch exists, and no recipe fetch when scrape_recipe ends.
C6_JoinAll ==
    [][ /\ (pc = "listing" /\ pc' # "listing") => InFlight(list_tasks) = {}
        /\ (pc = "scraping" /\ pc' # "scraping") => InFlight(recipe_tasks) = {}
        /\ InFlight(recipe_tasks') # {} => InFlight(list_tasks') = {} ]_vars

\* C7: delete_collection and insert_many are invoked only when no fetch is
\* in flight and every recipe task has ended, delete_collection before
\* insert_many, each at most once.
C7_PersistAfterCrawl ==
    [][ (delete_calls' # delete_calls \/ insert_calls' # insert_calls) =>
           /\ InFlight(list_tasks) = {}
           /\ InFlight(recipe_tasks) = {}
           /\ \A k \in DOMAIN recipe_tasks : Ended(recipe_tasks[k])
           /\ insert_calls' # insert_calls => delete_calls = 1
           /\ delete_calls' <= 1
           /\ insert_calls' <= 1 ]_vars

\* the (sub-category name, sub-category URL, recipe URL) triples in the
\* order of the sub-categories on the main category's page and, within a
\* sub-category, of the links on its listing page
ListedPairs ==
    Flatten([i \in DOMAIN list_tasks |->
               IF list_tasks[i].val = <<>> THEN <<>>
               ELSE [u \in DOMAIN list_tasks[i].val[1].recipe_urls |->
                       << sub_categories[i].name, sub_categories[i].url,
                          list_tasks[i].val[1].recipe_urls[u] >>]])

\* C8: whatever the completion order, the k-th entry of the final result
\* is the outcome of the k-th listed (sub-category, recipe URL) pair, and a
\* record carries that pair's URL, the name and URL of that sub-category
\* of the main category's page, the configured main category name and the
\* resolved main category URL.
C8_OrderAndBackReferences ==
    ResultsDelivered =>
        \A k \in DOMAIN results :
            results[k] # None =>
                /\ k \in DOMAIN ListedPairs
                /\ << results[k][1].sub_category_name,
                      results[k][1].sub_category_url,
                      results[k][1].url >> = ListedPairs[k]
                /\ results[k][1].main_category_name = main_category_name
                /\ Some(results[k][1].main_category_url) = main_category_url

\* a result holding the records of two recipes that two different
\* sub-categories listed
C8_Witness ==
    /\ ResultsDelivered
    /\ Len(results) = 2
    /\ results[1] # None
    /\ results[2] # None
    /\ results[1][1].sub_category_url # results[2][1].sub_category_url
    /\ results[1][1].url # results[2][1].url

C10_EmptyCrawlWipes ==
    /\ insert_calls > 0 => results # <<>>
    /\ (pc \in {"done", "crashed"} /\ delete_calls > 0) =>
          (insert_calls = 1 <=> results # <<>>)
    /\ (pc = "done" /\ ~NotFound(main_category_url)) =>
          /\ delete_calls = 1
          /\ results = <<>> => (insert_calls = 0 /\ store = <<>>)

\* the run ended after an empty crawl
C10_Witness ==
    /\ pc = "done"
    /\ ~NotFound(main_category_url)
    /\ results = <<>>
    /\ delete_calls = 1
    /\ store = <<>>

====
